---- MODULE Spec2Model ----
(***************************************************************************)
(* Hybrid transaction risk scoring of upi-sentinel: the rule engine        *)
(* (rules.utils.js), the batch processor and the remote scorer client      *)
(* (transaction service), the bulk write of the results                    *)
(* (TransactionModel.bulkCreate) and the polling of the dashboard (app.js). *)
(*                                                                         *)
(* Numbers.  Scores are JavaScript doubles in the code; here every score  *)
(* is an integer count of millionths (Scale = 1.0), and the arithmetic is  *)
(* exact.  Every scorer probability the model draws is a multiple of ten   *)
(* millionths, so that the 0.4/0.6 blend is an exact integer.              *)
(*                                                                         *)
(* JavaScript values.  A transaction is a row object: a TLA+ record whose  *)
(* DOMAIN holds the keys that are present.  Identifier and enumeration     *)
(* fields are strings.  The description and the signal fields hold a       *)
(* tagged value: [str |-> s] a string (s a tuple of characters),           *)
(* [numstr |-> n] a string that is the decimal numeral of n,               *)
(* [num |-> n] a number, [sym |-> n] a Symbol.                             *)
(***************************************************************************)
EXTENDS Integers, Sequences, FiniteSets, TLC

VARIABLES
    transactions,   \* processTransactions: the input array
    results,        \* processTransactions: const results = []
    i,              \* processTransactions: the loop index (0-based)
    pc,             \* where the async function stands
    attempt,        \* callMlApi: the loop variable
    netlog,         \* the responses to the network calls of the current callMlApi
    waits,          \* the setTimeout delays of the current callMlApi
    mlOutcome,      \* how the last callMlApi ended: a value or a thrown Error
    now,            \* Date.now()
    mock,           \* the responses the remote scorer may give
    run,            \* which run of the batch this is
    first,          \* the results of the first run
    arg,            \* the arguments of a function called on its own
    called,         \* the function called on its own, "none" before the call
    ret,            \* what that call returned, or that it threw
    inFlight,       \* callMlApi: the axios.post calls that have not settled
    records,        \* bulkCreate: the argument
    bpc,            \* bulkCreate: where the async function stands
    taken,          \* bulkCreate: how many records the for loop has taken
    sent,           \* the statements the client has sent that have settled
    pending,        \* the database: the rows as the open transaction sees them
    table,          \* the database: the committed rows
    client,         \* the pooled connection: "none", "held" or "released"
    releases,       \* how many times client.release() was called
    caught,         \* bulkCreate: the e of the catch block
    bulkOutcome,    \* how bulkCreate ended: it returned, or the Error it threw
    promise,        \* processTransactionFile: the promise it returned
    bulkCalls,      \* processTransactionFile: the arguments of its bulkCreate calls
    clock,          \* dashboard: the time in milliseconds
    pollingInterval,\* dashboard: let pollingInterval (0 for null, else the timer id)
    intervalDue,    \* dashboard: when the interval timer ticks next, if it is set
    timeouts,       \* dashboard: when the pending backoff timeouts are due
    retryCount,     \* dashboard: let retryCount
    stopped,        \* dashboard: handleApiError has stopped the polling
    lastFetch,      \* dashboard: what invoked fetchLatestTransactions last
    ticks           \* dashboard: how many timers have fired

vars == <<transactions, results, i, pc, attempt, netlog, waits, mlOutcome, now,
          mock, run, first, arg, called, ret, inFlight,
          records, bpc, taken, sent, pending, table, client, releases, caught, bulkOutcome,
          promise, bulkCalls,
          clock, pollingInterval, intervalDue, timeouts, retryCount, stopped,
          lastFetch, ticks>>

\* the state of the batch processor
batchVars == <<transactions, results, i, pc, attempt, netlog, waits, mlOutcome, now,
               mock, run, first, inFlight>>

\* the state of a call of one function on its own
callVars == <<arg, called, ret>>

\* the state of bulkCreate and of the database behind it
bulkVars == <<records, bpc, taken, sent, pending, table, client, releases, caught,
              bulkOutcome>>

\* the state of processTransactionFile
fileVars == <<promise, bulkCalls>>

\* the state of the dashboard page
pollVars == <<clock, pollingInterval, intervalDue, timeouts, retryCount, stopped,
              lastFetch, ticks>>

-----------------------------------------------------------------------------
(* Bounds *)

MaxBatch == 2
MaxNow == 1
MaxRuns == 2
MaxHistory == 4
MaxTicks == 6

-----------------------------------------------------------------------------
(* Units and program constants *)

Scale == 1000 * 1000

GROOMING_MIN_AMOUNT == 1000
MICRO_TXN_MAX == 50
MICRO_TXN_COUNT == 3
GROOMING_RISK == 75
GHOST_CREDIT_RISK == 95
REFUND_SCAM_RISK == 100
RISK_DIVISOR == 100
RETRIES == 3
RULE_WEIGHT_TENTHS == 4
ML_WEIGHT_TENTHS == 6
OVERRIDE_TENTHS == 9
VERDICT_TENTHS == 7
BACKOFF_BASE_MS == 1000
BACKOFF_CAP_MS == 5000
DECIMALS == 3
MAX_RETRIES == 5
POLL_INTERVAL == 5000
POLL_BACKOFF_BASE_MS == 1000
POLL_BACKOFF_CAP_MS == 30000

Min(a, b) == IF a < b THEN a ELSE b

RECURSIVE Pow(_, _)
Pow(b, e) == IF e = 0 THEN 1 ELSE b * Pow(b, e - 1)

-----------------------------------------------------------------------------
(* JavaScript values *)

Has(obj, key) == key \in DOMAIN obj

S(chars) == [str |-> chars]
NumStr(n) == [numstr |-> n]
Num(n) == [num |-> n]
Sym == [sym |-> 0]

IsStr(v) == "str" \in DOMAIN v
IsNumStr(v) == "numstr" \in DOMAIN v
IsNum(v) == "num" \in DOMAIN v
IsSym(v) == "sym" \in DOMAIN v

UpperCase == <<"A", "B", "C", "D", "E", "F", "G", "H", "I", "J", "K", "L", "M",
               "N", "O", "P", "Q", "R", "S", "T", "U", "V", "W", "X", "Y", "Z">>
LowerCase == <<"a", "b", "c", "d", "e", "f", "g", "h", "i", "j", "k", "l", "m",
               "n", "o", "p", "q", "r", "s", "t", "u", "v", "w", "x", "y", "z">>

\* String.prototype.toLowerCase, one character
toLowerChar(c) ==
    IF \E k \in DOMAIN UpperCase : UpperCase[k] = c
    THEN LowerCase[CHOOSE k \in DOMAIN UpperCase : UpperCase[k] = c]
    ELSE c

\* String.prototype.toLowerCase
toLowerCase(s) == [k \in DOMAIN s |-> toLowerChar(s[k])]

\* String.prototype.includes
includes(s, k) ==
    \E start \in 0..(Len(s) - Len(k)) : SubSeq(s, start + 1, start + Len(k)) = k

\* (txn.description || ""): the operand of .toLowerCase()
descriptionOrEmpty(txn) ==
    IF ~Has(txn, "description") THEN S(<<>>)
    ELSE IF IsNum(txn.description) /\ txn.description.num = 0 THEN S(<<>>)
    ELSE txn.description

\* .toLowerCase() is a TypeError on a value that is not a string
descriptionThrows(txn) ==
    LET d == descriptionOrEmpty(txn) IN ~(IsStr(d) \/ IsNumStr(d))

\* mutant of desc: the description is matched as written
desc_CaseSensitive(txn) ==
    LET d == descriptionOrEmpty(txn) IN IF IsStr(d) THEN d.str ELSE <<>>

\* the lower-cased description, as characters
desc(txn) ==
    LET d == descriptionOrEmpty(txn) IN
    IF IsStr(d) THEN toLowerCase(d.str) ELSE <<>>

\* txn.amount < 1000: a missing or non-numeric amount is NaN, and NaN < 1000 is false
amountBelow(txn, limit) ==
    /\ Has(txn, "amount")
    /\ \/ IsNumStr(txn.amount) /\ txn.amount.numstr < limit
       \/ IsNum(txn.amount) /\ txn.amount.num < limit

\* the relational comparison of a Symbol is a TypeError
amountThrows(txn) == Has(txn, "amount") /\ IsSym(txn.amount)

-----------------------------------------------------------------------------
(* Rule engine *)

\* mutant of NotTriggered: an outcome that did not trigger carries a reason too
NotTriggered_WithReason == [triggered |-> FALSE, risk |-> 0, reason |-> "No rule matched"]

NotTriggered == [triggered |-> FALSE, risk |-> 0]

\* mutant of microTxns: only amounts below 50 count
microTxns_Below(history) ==
    Cardinality({k \in DOMAIN history : history[k].amount < MICRO_TXN_MAX})

\* history.filter((t) => t.amount <= 50).length
microTxns(history) ==
    Cardinality({k \in DOMAIN history : history[k].amount <= MICRO_TXN_MAX})

checkGrooming(txn, history) ==
    IF amountBelow(txn, GROOMING_MIN_AMOUNT) THEN NotTriggered
    ELSE IF microTxns(history) >= MICRO_TXN_COUNT
    THEN [triggered |-> TRUE, risk |-> GROOMING_RISK,
          reason |-> "Grooming Detected: 3+ micro-transactions found before high value transfer."]
    ELSE NotTriggered

GhostKeywords ==
    { <<"r", "e", "t", "u", "r", "n">>,
      <<"m", "i", "s", "t", "a", "k", "e">>,
      <<"r", "e", "f", "u", "n", "d">>,
      <<"s", "e", "n", "t", " ", "b", "y", " ", "m", "i", "s", "t", "a", "k", "e">>,
      <<"b", "a", "c", "k">> }

\* mutant of checkGhostCredit: the beneficiary type is not looked at
checkGhostCredit_AnyBeneficiary(txn, lastIncoming) ==
    IF lastIncoming = <<>> /\ \E k \in GhostKeywords : includes(desc(txn), k)
    THEN [triggered |-> TRUE, risk |-> GHOST_CREDIT_RISK,
          reason |-> "Fake Payment Alert: You are refunding money you never received."]
    ELSE NotTriggered

\* mutant of checkGhostCredit: the prior incoming transaction is not looked at
checkGhostCredit_AnyHistory(txn, lastIncoming) ==
    IF ~(Has(txn, "beneficiary_type") /\ txn.beneficiary_type = "INDIVIDUAL")
    THEN NotTriggered
    ELSE IF \E w \in GhostKeywords : includes(desc(txn), w)
    THEN [triggered |-> TRUE, risk |-> GHOST_CREDIT_RISK,
          reason |-> "Fake Payment Alert: You are refunding money you never received."]
    ELSE NotTriggered

\* lastIncoming: <<>> for null, <<t>> for a record of a prior incoming transaction
checkGhostCredit(txn, lastIncoming) ==
    IF ~(Has(txn, "beneficiary_type") /\ txn.beneficiary_type = "INDIVIDUAL")
    THEN NotTriggered
    ELSE IF lastIncoming = <<>> /\ \E k \in GhostKeywords : includes(desc(txn), k)
    THEN [triggered |-> TRUE, risk |-> GHOST_CREDIT_RISK,
          reason |-> "Fake Payment Alert: You are refunding money you never received."]
    ELSE NotTriggered

RefundKeywords ==
    { <<"r", "e", "f", "u", "n", "d">>,
      <<"c", "a", "s", "h", "b", "a", "c", "k">>,
      <<"p", "r", "i", "z", "e">>,
      <<"w", "o", "n">>,
      <<"l", "o", "t", "t", "e", "r", "y">>,
      <<"c", "l", "a", "i", "m">> }

\* mutant of checkRefundScam: the transaction type is not looked at
checkRefundScam_AnyType(txn) ==
    IF \E k \in RefundKeywords : includes(desc(txn), k)
    THEN [triggered |-> TRUE, risk |-> REFUND_SCAM_RISK,
          reason |-> "Refund Scam: 'Collect' request disguised as a Refund/Prize."]
    ELSE NotTriggered

checkRefundScam(txn) ==
    IF Has(txn, "type") /\ txn.type = "COLLECT"
          /\ \E k \in RefundKeywords : includes(desc(txn), k)
    THEN [triggered |-> TRUE, risk |-> REFUND_SCAM_RISK,
          reason |-> "Refund Scam: 'Collect' request disguised as a Refund/Prize."]
    ELSE NotTriggered

\* the places of the three rules where evaluation raises a TypeError
checkGroomingThrows(txn) == amountThrows(txn)

checkGhostCreditThrows(txn, lastIncoming) ==
    /\ Has(txn, "beneficiary_type") /\ txn.beneficiary_type = "INDIVIDUAL"
    /\ lastIncoming = <<>>
    /\ descriptionThrows(txn)

checkRefundScamThrows(txn) ==
    /\ Has(txn, "type") /\ txn.type = "COLLECT"
    /\ descriptionThrows(txn)

(* Rule aggregator *)

\* mutant of totalScore: the grooming rule is given a history of three micro
\* transactions
totalScore_WithHistory(txn) ==
    LET grooming == checkGrooming(txn, <<[amount |-> 10], [amount |-> 10], [amount |-> 10]>>)
        ghost == checkGhostCredit(txn, <<>>)
        refund == checkRefundScam(txn)
    IN  (IF grooming.triggered THEN grooming.risk ELSE 0)
        + (IF ghost.triggered THEN ghost.risk ELSE 0)
        + (IF refund.triggered THEN refund.risk ELSE 0)

totalScore(txn) ==
    LET grooming == checkGrooming(txn, <<>>)
        ghost == checkGhostCredit(txn, <<>>)
        refund == checkRefundScam(txn)
    IN  (IF grooming.triggered THEN grooming.risk ELSE 0)
        + (IF ghost.triggered THEN ghost.risk ELSE 0)
        + (IF refund.triggered THEN refund.risk ELSE 0)

\* mutant of checkHardcodedRules: the sum is not clamped
checkHardcodedRules_NoClamp(txn) == (totalScore(txn) * Scale) \div RISK_DIVISOR

\* Math.min(totalScore / 100, 1.0), in millionths
checkHardcodedRules(txn) == Min((totalScore(txn) * Scale) \div RISK_DIVISOR, Scale)

checkHardcodedRulesThrows(txn) ==
    \/ checkGroomingThrows(txn)
    \/ checkGhostCreditThrows(txn, <<>>)
    \/ checkRefundScamThrows(txn)

-----------------------------------------------------------------------------
(* Payload construction *)

\* parseFloat(v) and parseInt(v): <<n>>, or <<>> for NaN
parseNumber(obj, key) ==
    IF ~Has(obj, key) THEN <<>>
    ELSE IF IsNumStr(obj[key]) THEN <<obj[key].numstr>>
    ELSE IF IsNum(obj[key]) THEN <<obj[key].num>>
    ELSE <<>>

\* parseFloat(v) || 0
parseNumberOr0(obj, key) ==
    LET n == parseNumber(obj, key) IN IF n = <<>> THEN 0 ELSE n[1]

\* parseFloat and parseInt convert their argument to a string: a TypeError on a Symbol
parseNumberThrows(obj, key) == Has(obj, key) /\ IsSym(obj[key])

RECURSIVE trimStart(_)
trimStart(s) == IF s # <<>> /\ Head(s) = " " THEN trimStart(Tail(s)) ELSE s

RECURSIVE trimEnd(_)
trimEnd(s) ==
    IF s # <<>> /\ s[Len(s)] = " " THEN trimEnd(SubSeq(s, 1, Len(s) - 1)) ELSE s

trim(s) == trimEnd(trimStart(s))

\* mutant of parseBool: what cannot be parsed is false, whatever the default
parseBool_DefaultFalse(obj, key, defaultValue) ==
    IF ~Has(obj, key) THEN FALSE
    ELSE LET value == obj[key] IN
         IF "bool" \in DOMAIN value THEN value.bool
         ELSE IF IsStr(value) THEN trim(toLowerCase(value.str)) = <<"t", "r", "u", "e">>
         ELSE IF IsNumStr(value) THEN value.numstr = 1
         ELSE IF IsNum(value) THEN value.num # 0
         ELSE FALSE

parseBool(obj, key, defaultValue) ==
    IF ~Has(obj, key) THEN defaultValue
    ELSE LET value == obj[key] IN
         IF "bool" \in DOMAIN value THEN value.bool
         ELSE IF IsStr(value)
         THEN LET lower == trim(toLowerCase(value.str)) IN
              IF lower = <<"t", "r", "u", "e">> THEN TRUE
              ELSE IF lower = <<"f", "a", "l", "s", "e">> THEN FALSE
              ELSE defaultValue
         ELSE IF IsNumStr(value)
         THEN IF value.numstr = 1 THEN TRUE
              ELSE IF value.numstr = 0 THEN FALSE
              ELSE defaultValue
         ELSE IF IsNum(value) THEN value.num # 0
         ELSE defaultValue

textOr(obj, key, defaultValue) ==
    IF Has(obj, key) /\ obj[key] # "" THEN obj[key] ELSE defaultValue

NumberFields ==
    {"amount", "anomaly_score", "sender_in_degree_7d", "sender_out_degree_7d",
     "sender_in_out_ratio", "fake_claim_count_user_7d"}

prepareMlPayload(txn) ==
    [amount |-> parseNumberOr0(txn, "amount"),
     is_new_counterparty |-> parseBool(txn, "is_new_counterparty", FALSE),
     device_change |-> parseBool(txn, "device_change", FALSE),
     location_change |-> parseBool(txn, "location_change", FALSE),
     channel |-> textOr(txn, "channel", "intent"),
     page_context |-> textOr(txn, "page_context", "normal_payment"),
     requires_pin |-> parseBool(txn, "requires_pin", TRUE),
     anomaly_score |-> parseNumberOr0(txn, "anomaly_score"),
     sender_in_degree_7d |-> parseNumberOr0(txn, "sender_in_degree_7d"),
     sender_out_degree_7d |-> parseNumberOr0(txn, "sender_out_degree_7d"),
     sender_in_out_ratio |-> parseNumberOr0(txn, "sender_in_out_ratio"),
     fake_claim_count_user_7d |-> parseNumberOr0(txn, "fake_claim_count_user_7d"),
     is_screen_recording_on |-> parseBool(txn, "is_screen_recording_on", FALSE),
     is_remote_access_app_running |-> parseBool(txn, "is_remote_access_app_running", FALSE),
     is_call_active_during_payment |-> parseBool(txn, "is_call_active_during_payment", FALSE)]

prepareMlPayloadThrows(txn) == \E key \in NumberFields : parseNumberThrows(txn, key)

-----------------------------------------------------------------------------
(* Remote scorer client *)

\* What one axios.post may come to.  ok: the promise resolved (a 2xx response);
\* hasData: response.data is an object; hasProb: it has fraud_probability.
Resolved(p) ==
    [ok |-> TRUE, hasData |-> TRUE, hasProb |-> TRUE, prob |-> p, message |-> "none"]
ResolvedNoField ==
    [ok |-> TRUE, hasData |-> TRUE, hasProb |-> FALSE, prob |-> 0, message |-> "none"]
ResolvedNullBody ==
    [ok |-> TRUE, hasData |-> FALSE, hasProb |-> FALSE, prob |-> 0, message |-> "none"]
Rejected(msg) ==
    [ok |-> FALSE, hasData |-> FALSE, hasProb |-> FALSE, prob |-> 0, message |-> msg]

\* the probabilities a response may carry: 0.5, 1.0, 1.167, -0.5
Probabilities ==
    {Scale \div 2, Scale, (Scale * 1167) \div 1000, 0 - (Scale \div 2)}

Responses ==
    {Resolved(p) : p \in Probabilities}
        \cup {ResolvedNoField, ResolvedNullBody, Rejected("timeout of 5000ms exceeded")}

\* mutant of attemptThrows: a response without the probability field is a failure
attemptThrows_RequiresField(resp) == ~resp.ok \/ ~resp.hasData \/ ~resp.hasProb

\* the try block of callMlApi raises: the post rejected, or response.data is null
attemptThrows(resp) == ~resp.ok \/ ~resp.hasData

\* error.message in the catch block
errorMessage(resp) ==
    IF ~resp.ok THEN resp.message
    ELSE "Cannot read properties of null (reading 'fraud_probability')"

\* response.data.fraud_probability || 0
fraudProbability(resp) == IF resp.hasProb /\ resp.prob # 0 THEN resp.prob ELSE 0

\* mutant of isLastAttempt: the retry budget is one short
isLastAttempt_Early(n, retries) == n = retries - 1

\* attempt === retries
isLastAttempt(n, retries) == n = retries

\* mutant of backoffDelay: the exponent is the attempt number
backoffDelay_Doubled(n) == Min(BACKOFF_BASE_MS * Pow(2, n), BACKOFF_CAP_MS)

\* Math.min(1000 * Math.pow(2, attempt - 1), 5000)
backoffDelay(n) == Min(BACKOFF_BASE_MS * Pow(2, n - 1), BACKOFF_CAP_MS)

\* `ML API failed after ${retries} attempts: ${error.message}`
failureMessage(retries, message) == <<"ML API failed after", retries, "attempts:", message>>

NoOutcome == [kind |-> "none", value |-> 0, message |-> <<>>]
Returned(v) == [kind |-> "value", value |-> v, message |-> <<>>]
Thrown(msg) == [kind |-> "error", value |-> 0, message |-> msg]

-----------------------------------------------------------------------------
(* Hybrid scoring *)

OverrideThreshold == (OVERRIDE_TENTHS * Scale) \div 10
VerdictThreshold == (VERDICT_TENTHS * Scale) \div 10

\* mutant of blend: the two weights are exchanged
blend_Swapped(ruleScore, mlScore) ==
    (ruleScore * ML_WEIGHT_TENTHS + mlScore * RULE_WEIGHT_TENTHS) \div 10

\* ruleScore * 0.4 + mlScore * 0.6
blend(ruleScore, mlScore) ==
    (ruleScore * RULE_WEIGHT_TENTHS + mlScore * ML_WEIGHT_TENTHS) \div 10

\* mutant of finalRisk: the override is left out
finalRisk_NoOverride(ruleScore, mlScore) == blend(ruleScore, mlScore)

\* if (ruleScore >= 0.9) finalRisk = 1.0
finalRisk(ruleScore, mlScore) ==
    IF ruleScore >= OverrideThreshold THEN Scale ELSE blend(ruleScore, mlScore)

\* parseFloat(x.toFixed(3)): to the nearest thousandth, halves away from zero
toFixed(x) ==
    LET step == Scale \div Pow(10, DECIMALS)
        mag == IF x < 0 THEN 0 - x ELSE x
        rounded == ((mag + step \div 2) \div step) * step
    IN  IF x < 0 THEN 0 - rounded ELSE rounded

\* finalRisk > 0.7 ? "FRAUD" : "SAFE"
verdictOf(score) == IF score > VerdictThreshold THEN "FRAUD" ELSE "SAFE"

hasTxnId(txn) == Has(txn, "txn_id") /\ txn.txn_id # ""

\* mutant of transactionId: the identifier of the row is ignored
transactionId_AlwaysGenerated(txn, idx, t) == <<"TXN", t, idx>>

\* txn.txn_id || `TXN-${Date.now()}-${i}`
transactionId(txn, idx, t) ==
    IF hasTxnId(txn) THEN <<txn.txn_id, 0 - 1, 0 - 1>> ELSE <<"TXN", t, idx>>

\* the values Date.now() may give when the identifier is built
clockReads(txn) == IF hasTxnId(txn) THEN {now} ELSE now..MaxNow

None == <<>>
Some(v) == <<v>>

\* the result object of the try block
hybridResult(txn, idx, ruleScore, mlScore, t) ==
    LET final == finalRisk(ruleScore, mlScore) IN
    [transaction_id |-> transactionId(txn, idx, t),
     sender_upi |-> textOr(txn, "sender_vpa", textOr(txn, "sender_upi", "unknown")),
     receiver_upi |-> textOr(txn, "receiver_vpa", textOr(txn, "receiver_upi", "unknown")),
     amount |-> parseNumberOr0(txn, "amount"),
     risk_score |-> toFixed(final),
     verdict |-> verdictOf(final),
     reason |-> IF final > VerdictThreshold
                THEN "High Risk Detected by Hybrid Engine" ELSE "Clean",
     ml_score |-> Some(mlScore),
     rule_score |-> ruleScore]

\* mutant of degradedRisk: the catch block applies the override as the try block does
degradedRisk_Override(ruleScore) ==
    toFixed(IF ruleScore >= OverrideThreshold THEN Scale ELSE ruleScore)

\* the risk_score of the catch block: parseFloat(ruleScore.toFixed(3))
degradedRisk(ruleScore) == toFixed(ruleScore)

\* mutant of degradedResult: the catch block words its reason as the try block does
degradedResult_HybridReason(txn, idx, ruleScore, t) ==
    [transaction_id |-> transactionId(txn, idx, t),
     sender_upi |-> textOr(txn, "sender_vpa", "unknown"),
     receiver_upi |-> textOr(txn, "receiver_vpa", "unknown"),
     amount |-> parseNumberOr0(txn, "amount"),
     risk_score |-> degradedRisk(ruleScore),
     verdict |-> verdictOf(ruleScore),
     reason |-> IF ruleScore > VerdictThreshold
                THEN "High Risk Detected by Hybrid Engine" ELSE "Clean",
     ml_score |-> None,
     rule_score |-> ruleScore]

\* the result object of the catch block
degradedResult(txn, idx, ruleScore, t) ==
    [transaction_id |-> transactionId(txn, idx, t),
     sender_upi |-> textOr(txn, "sender_vpa", "unknown"),
     receiver_upi |-> textOr(txn, "receiver_vpa", "unknown"),
     amount |-> parseNumberOr0(txn, "amount"),
     risk_score |-> degradedRisk(ruleScore),
     verdict |-> verdictOf(ruleScore),
     reason |-> "ML unavailable - Rule-based scoring only",
     ml_score |-> None,
     rule_score |-> ruleScore]

-----------------------------------------------------------------------------
(* Inputs *)

\* rows as the CSV parser gives them: every value a string
RowRefund ==
    [txn_id |-> "T1", sender_vpa |-> "asha@upi", receiver_vpa |-> "ravi@upi",
     amount |-> NumStr(500), type |-> "PAY", beneficiary_type |-> "INDIVIDUAL",
     description |-> S(<<"R", "e", "f", "u", "n", "d", " ", "d", "u", "e">>),
     requires_pin |-> S(<<"f", "a", "l", "s", "e">>)]

RowPlain ==
    [sender_upi |-> "meera@upi", receiver_upi |-> "shop@upi",
     amount |-> NumStr(5000), type |-> "PAY", beneficiary_type |-> "MERCHANT",
     anomaly_score |-> NumStr(2)]

RowCollect ==
    [txn_id |-> "T3", sender_vpa |-> "kiran@upi", receiver_vpa |-> "lucky@upi",
     amount |-> NumStr(1000), type |-> "COLLECT", beneficiary_type |-> "MERCHANT",
     description |-> S(<<"c", "a", "s", "h", "b", "a", "c", "k">>)]

Rows == {RowRefund, RowPlain, RowCollect}

\* records no CSV row can be: a description that is a number, a signal that is a Symbol
RowBadDescription ==
    [txn_id |-> "T4", sender_vpa |-> "dev@upi", receiver_vpa |-> "ravi@upi",
     amount |-> NumStr(200), type |-> "PAY", beneficiary_type |-> "INDIVIDUAL",
     description |-> Num(42)]

RowBadSignal ==
    [txn_id |-> "T5", sender_vpa |-> "noor@upi", receiver_vpa |-> "shop@upi",
     amount |-> NumStr(300), type |-> "PAY", beneficiary_type |-> "MERCHANT",
     anomaly_score |-> Sym]

FaultRows == {RowBadDescription, RowBadSignal}

Batches(rows) == UNION {[1..n -> rows] : n \in 0..MaxBatch}

-----------------------------------------------------------------------------
(* The batch processor and the scorer client as a state machine.            *)
(* pc: "loop" at the head of the for loop of processTransactions, "post"    *)
(* while an axios.post of callMlApi is in flight, "sleep" while its backoff *)
(* timer is pending, "returned" once processTransactions has returned       *)
(* results, "rejected" once it has thrown.                                  *)

\* bulkCreate has not been called
IdleBulk ==
    /\ records = <<>>
    /\ bpc = "idle"
    /\ taken = 0
    /\ sent = <<>>
    /\ pending = <<>>
    /\ table = <<>>
    /\ client = "none"
    /\ releases = 0
    /\ caught = <<>>
    /\ bulkOutcome = NoOutcome

\* the promise of processTransactionFile has not settled
IdleFile ==
    /\ promise = [state |-> "pending", value |-> <<>>]
    /\ bulkCalls = <<>>

\* the dashboard page has not loaded
IdlePoll ==
    /\ clock = 0
    /\ pollingInterval = 0
    /\ intervalDue = <<>>
    /\ timeouts = <<>>
    /\ retryCount = 0
    /\ stopped = FALSE
    /\ lastFetch = [by |-> "none", stopped |-> FALSE]
    /\ ticks = 0

InitWith(rows, scorers) ==
    /\ transactions \in Batches(rows)
    /\ mock \in scorers
    /\ results = <<>>
    /\ i = 0
    /\ pc = "loop"
    /\ attempt = 0
    /\ netlog = <<>>
    /\ waits = <<>>
    /\ mlOutcome = NoOutcome
    /\ now = 0
    /\ run = 1
    /\ first = <<>>
    /\ arg = <<>>
    /\ called = "none"
    /\ ret = <<>>
    /\ inFlight = 0
    /\ IdleBulk
    /\ IdleFile
    /\ IdlePoll

\* the scorer may answer each call in any way
Init == InitWith(Rows, {Responses})

\* as Init, with records on which rule evaluation or payload construction raises
InitFault == InitWith(Rows \cup FaultRows, {Responses})

\* a mocked scorer that gives one fixed response to every call
InitRerun == InitWith(Rows, {{resp} : resp \in Responses})

\* mutant of PushDegraded: the catch block emits nothing
PushDegraded_Drop(txn) ==
    /\ now' = now
    /\ results' = results
    /\ i' = i + 1
    /\ pc' = "loop"

\* results.push of the catch block, and on to the next iteration
PushDegraded(txn) ==
    \E t \in clockReads(txn) :
        /\ now' = t
        /\ results' = Append(results, degradedResult(txn, i, checkHardcodedRules(txn), t))
        /\ i' = i + 1
        /\ pc' = "loop"

\* results.push of the try block, and on to the next iteration
PushHybrid(txn, mlScore) ==
    \E t \in clockReads(txn) :
        /\ now' = t
        /\ results' = Append(results, hybridResult(txn, i, checkHardcodedRules(txn), mlScore, t))
        /\ i' = i + 1
        /\ pc' = "loop"

\* mutant of BeginIteration: the attempt counter is shared by the transactions of the
\* batch, and is not set back to 1
BeginIteration_SharedBudget ==
    /\ pc = "loop"
    /\ i < Len(transactions)
    /\ LET txn == transactions[i + 1] IN
       IF checkHardcodedRulesThrows(txn)
       THEN /\ pc' = "rejected"
            /\ UNCHANGED <<results, i, attempt, netlog, waits, mlOutcome, now, inFlight>>
       ELSE IF prepareMlPayloadThrows(txn)
       THEN /\ PushDegraded(txn)
            /\ mlOutcome' = NoOutcome
            /\ netlog' = <<>>
            /\ waits' = <<>>
            /\ UNCHANGED <<attempt, inFlight>>
       ELSE /\ attempt' = (IF attempt = 0 THEN 1 ELSE attempt)
            /\ netlog' = <<>>
            /\ waits' = <<>>
            /\ mlOutcome' = NoOutcome
            /\ pc' = "post"
            /\ inFlight' = inFlight + 1
            /\ UNCHANGED <<results, i, now>>
    /\ UNCHANGED <<transactions, mock, run, first, arg, called, ret,
                   bulkVars, fileVars, pollVars>>

\* mutant of BeginIteration: the call of the scorer is not awaited, the loop goes on
\* to the next transaction with the call in flight
BeginIteration_NoAwait ==
    /\ pc = "loop"
    /\ i < Len(transactions)
    /\ LET txn == transactions[i + 1] IN
       IF checkHardcodedRulesThrows(txn)
       THEN /\ pc' = "rejected"
            /\ UNCHANGED <<results, i, attempt, netlog, waits, mlOutcome, now, inFlight>>
       ELSE IF prepareMlPayloadThrows(txn)
       THEN /\ PushDegraded(txn)
            /\ mlOutcome' = NoOutcome
            /\ netlog' = <<>>
            /\ waits' = <<>>
            /\ UNCHANGED <<attempt, inFlight>>
       ELSE /\ attempt' = 1
            /\ netlog' = <<>>
            /\ waits' = <<>>
            /\ mlOutcome' = NoOutcome
            /\ pc' = "loop"
            /\ i' = i + 1
            /\ inFlight' = inFlight + 1
            /\ UNCHANGED <<results, now>>
    /\ UNCHANGED <<transactions, mock, run, first, arg, called, ret,
                   bulkVars, fileVars, pollVars>>

\* One iteration from the loop head to its first await: the rules, the payload and
\* the first axios.post.  A throw of the rules throws again in the catch block, which
\* evaluates them once more, and so leaves processTransactions.
BeginIteration ==
    /\ pc = "loop"
    /\ i < Len(transactions)
    /\ LET txn == transactions[i + 1] IN
       IF checkHardcodedRulesThrows(txn)
       THEN /\ pc' = "rejected"
            /\ UNCHANGED <<results, i, attempt, netlog, waits, mlOutcome, now, inFlight>>
       ELSE IF prepareMlPayloadThrows(txn)
       THEN /\ PushDegraded(txn)
            /\ mlOutcome' = NoOutcome
            /\ netlog' = <<>>
            /\ waits' = <<>>
            /\ UNCHANGED <<attempt, inFlight>>
       ELSE /\ attempt' = 1
            /\ netlog' = <<>>
            /\ waits' = <<>>
            /\ mlOutcome' = NoOutcome
            /\ pc' = "post"
            /\ inFlight' = inFlight + 1
            /\ UNCHANGED <<results, i, now>>
    /\ UNCHANGED <<transactions, mock, run, first, arg, called, ret,
                   bulkVars, fileVars, pollVars>>

\* The post in flight settles.  Resolved with a body: callMlApi returns and the try
\* block builds the result.  Otherwise the catch block of callMlApi: on the last
\* attempt it throws and the catch block of processTransactions builds the degraded
\* result; before that it sets the backoff timer.
PostSettles ==
    /\ pc = "post"
    /\ inFlight' = inFlight - 1
    /\ \E resp \in mock :
        LET txn == transactions[i + 1] IN
        /\ netlog' = Append(netlog, resp)
        /\ IF ~attemptThrows(resp)
           THEN /\ mlOutcome' = Returned(fraudProbability(resp))
                /\ PushHybrid(txn, fraudProbability(resp))
                /\ UNCHANGED <<attempt, waits>>
           ELSE IF isLastAttempt(attempt, RETRIES)
           THEN /\ mlOutcome' = Thrown(failureMessage(RETRIES, errorMessage(resp)))
                /\ PushDegraded(txn)
                /\ UNCHANGED <<attempt, waits>>
           ELSE /\ waits' = Append(waits, backoffDelay(attempt))
                /\ pc' = "sleep"
                /\ UNCHANGED <<results, i, attempt, mlOutcome, now>>
    /\ UNCHANGED <<transactions, mock, run, first, arg, called, ret,
                   bulkVars, fileVars, pollVars>>

\* The backoff timer fires: attempt++ and, the loop condition holding, the next post.
\* The loop never ends by its condition: the last attempt returns or throws.
TimerFires ==
    /\ pc = "sleep"
    /\ attempt + 1 <= RETRIES
    /\ attempt' = attempt + 1
    /\ pc' = "post"
    /\ inFlight' = inFlight + 1
    /\ UNCHANGED <<transactions, results, i, netlog, waits, mlOutcome, now, mock, run, first,
                   arg, called, ret,
                   bulkVars, fileVars, pollVars>>

\* return results
Return ==
    /\ pc = "loop"
    /\ i = Len(transactions)
    /\ pc' = "returned"
    /\ UNCHANGED <<transactions, results, i, attempt, netlog, waits, mlOutcome, now,
                   mock, run, first, inFlight, arg, called, ret,
                   bulkVars, fileVars, pollVars>>

\* the same batch is processed again, the clock having moved on or not
Rerun ==
    /\ pc = "returned"
    /\ run < MaxRuns
    /\ run' = run + 1
    /\ first' = results
    /\ results' = <<>>
    /\ i' = 0
    /\ pc' = "loop"
    /\ attempt' = 0
    /\ netlog' = <<>>
    /\ waits' = <<>>
    /\ mlOutcome' = NoOutcome
    /\ UNCHANGED <<transactions, now, mock, inFlight, arg, called, ret,
                   bulkVars, fileVars, pollVars>>

Next == BeginIteration \/ PostSettles \/ TimerFires \/ Return

NextRerun == Next \/ Rerun

Spec == Init /\ [][Next]_vars

SpecFault == InitFault /\ [][Next]_vars

SpecRerun == InitRerun /\ [][NextRerun]_vars

-----------------------------------------------------------------------------
(* The pure functions called on their own: the three rules, the aggregator   *)
(* and the payload construction, each applied once to an argument drawn in   *)
(* the initial state.  An optional field or argument is <<>> when missing    *)
(* and <<v>> when present.                                                   *)

\* the object with the one key, or with none
Field(key, opt) == IF opt = <<>> THEN <<>> ELSE key :> opt[1]

Amounts ==
    {<<>>, <<NumStr(50)>>, <<NumStr(999)>>, <<NumStr(1000)>>, <<NumStr(1001)>>,
     <<NumStr(25000)>>}
BeneficiaryTypes == {<<>>, <<"INDIVIDUAL">>, <<"MERCHANT">>}
Types == {<<>>, <<"PAY">>, <<"COLLECT">>}
Descriptions ==
    { <<>>,
      <<S(<<>>)>>,
      <<S(<<"R", "E", "F", "U", "N", "D">>)>>,
      <<S(<<"m", "y", " ", "R", "e", "f", "u", "n", "d", " ", "p", "l", "s">>)>>,
      <<S(<<"s", "e", "n", "t", " ", "b", "a", "c", "k">>)>>,
      <<S(<<"I", " ", "W", "O", "N">>)>>,
      <<S(<<"c", "l", "a", "i", "m", " ", "n", "o", "w">>)>>,
      <<S(<<"L", "o", "t", "t", "e", "r", "y", " ", "p", "r", "i", "z", "e">>)>>,
      <<S(<<"C", "a", "s", "h", "b", "a", "c", "k">>)>>,
      <<S(<<"d", "i", "n", "n", "e", "r">>)>> }

\* prior transactions of 10, 50 and 51 rupees, in any order
Histories == UNION {[1..n -> {[amount |-> 10], [amount |-> 50], [amount |-> 51]}] :
                        n \in 0..MaxHistory}

\* null, or the record of a prior incoming transaction
LastIncomings == {<<>>, <<[amount |-> 100]>>}

\* what a boolean signal column may hold: nothing, text that is no boolean, booleans
\* in several spellings, numerals
BoolCells ==
    { <<>>,
      <<S(<<"m", "a", "y", "b", "e">>)>>,
      <<S(<<"t", "r", "u", "e">>)>>,
      <<S(<<" ", "F", "a", "l", "s", "e", " ">>)>>,
      <<NumStr(1)>>, <<NumStr(0)>>, <<NumStr(7)>> }

\* what a numeric signal column may hold: nothing, text that is no number, numerals
NumberCells == {<<>>, <<S(<<"a", "b", "c">>)>>, <<NumStr(0)>>, <<NumStr(5)>>}

BoolFields ==
    {"is_new_counterparty", "device_change", "location_change", "requires_pin",
     "is_screen_recording_on", "is_remote_access_app_running",
     "is_call_active_during_payment"}

RuleRow(amount, beneficiary, type, description) ==
    Field("amount", amount) @@ Field("beneficiary_type", beneficiary)
        @@ Field("type", type) @@ Field("description", description)

\* a row whose boolean signals all hold b and whose numeric signals all hold n
SignalRow(b, n) ==
    [key \in (IF b = <<>> THEN {} ELSE BoolFields)
                \cup (IF n = <<>> THEN {} ELSE NumberFields) |->
        IF key \in BoolFields THEN b[1] ELSE n[1]]

\* arguments that exercise the grooming rule: every amount with every history
GroomingArgs ==
    {[txn |-> RuleRow(a, <<"INDIVIDUAL">>, <<"PAY">>, <<>>), history |-> h,
      lastIncoming |-> <<>>] : a \in Amounts, h \in Histories}

\* arguments that exercise the keyword rules and the aggregator
RuleArgs ==
    {[txn |-> RuleRow(a, b, t, d), history |-> <<>>, lastIncoming |-> l] :
        a \in Amounts, b \in BeneficiaryTypes, t \in Types, d \in Descriptions,
        l \in LastIncomings}

\* arguments that exercise the payload construction
PayloadArgs ==
    {[txn |-> SignalRow(b, n), history |-> <<>>, lastIncoming |-> <<>>] :
        b \in BoolCells, n \in NumberCells}

InitCall ==
    /\ arg \in GroomingArgs \cup RuleArgs \cup PayloadArgs
    /\ called = "none"
    /\ ret = <<>>
    /\ transactions = <<>>
    /\ mock = {}
    /\ results = <<>>
    /\ i = 0
    /\ pc = "call"
    /\ attempt = 0
    /\ netlog = <<>>
    /\ waits = <<>>
    /\ mlOutcome = NoOutcome
    /\ now = 0
    /\ run = 1
    /\ first = <<>>
    /\ inFlight = 0
    /\ IdleBulk
    /\ IdleFile
    /\ IdlePoll

ThrewError == [threw |-> TRUE]
Value(v) == [threw |-> FALSE, value |-> v]

\* the call of function name ends: it threw, or it returned value
Call(name, throws, value) ==
    /\ pc = "call"
    /\ called = "none"
    /\ called' = name
    /\ ret' = IF throws THEN ThrewError ELSE Value(value)
    /\ UNCHANGED arg
    /\ UNCHANGED <<batchVars, bulkVars, fileVars, pollVars>>

CallCheckGrooming ==
    Call("checkGrooming", checkGroomingThrows(arg.txn),
         checkGrooming(arg.txn, arg.history))

CallCheckGhostCredit ==
    Call("checkGhostCredit", checkGhostCreditThrows(arg.txn, arg.lastIncoming),
         checkGhostCredit(arg.txn, arg.lastIncoming))

CallCheckRefundScam ==
    Call("checkRefundScam", checkRefundScamThrows(arg.txn), checkRefundScam(arg.txn))

CallCheckHardcodedRules ==
    Call("checkHardcodedRules", checkHardcodedRulesThrows(arg.txn),
         checkHardcodedRules(arg.txn))

CallPrepareMlPayload ==
    Call("prepareMlPayload", prepareMlPayloadThrows(arg.txn), prepareMlPayload(arg.txn))

NextCall ==
    \/ CallCheckGrooming
    \/ CallCheckGhostCredit
    \/ CallCheckRefundScam
    \/ CallCheckHardcodedRules
    \/ CallPrepareMlPayload

SpecCall == InitCall /\ [][NextCall]_vars

\* records no CSV row can be, as arguments of the rules: a description that is a
\* number, zero or not, or that is missing
FaultArgs ==
    {[txn |-> RuleRow(a, b, t, d), history |-> <<>>, lastIncoming |-> l] :
        a \in {<<>>, <<NumStr(1001)>>}, b \in BeneficiaryTypes, t \in Types,
        d \in {<<>>, <<Num(0)>>, <<Num(42)>>}, l \in LastIncomings}

\* as InitCall, the argument being any object
InitCallFault ==
    /\ arg \in FaultArgs
    /\ called = "none"
    /\ ret = <<>>
    /\ transactions = <<>>
    /\ mock = {}
    /\ results = <<>>
    /\ i = 0
    /\ pc = "call"
    /\ attempt = 0
    /\ netlog = <<>>
    /\ waits = <<>>
    /\ mlOutcome = NoOutcome
    /\ now = 0
    /\ run = 1
    /\ first = <<>>
    /\ inFlight = 0
    /\ IdleBulk
    /\ IdleFile
    /\ IdlePoll

SpecCallFault == InitCallFault /\ [][NextCall]_vars

-----------------------------------------------------------------------------
(* TransactionModel.bulkCreate and the database behind it.  bpc: "idle"      *)
(* before the call, "connect" while pool.connect() is pending, "begin",      *)
(* "upsert", "commit", "rollback" while that statement is in flight, "done"  *)
(* once bulkCreate has returned, "threw" once it has thrown.  A statement    *)
(* may fail whatever it is: the connection may drop at any moment.           *)

\* a statement that has settled: its name, the record it was for (0 for none), and
\* whether it succeeded
Stmt(name, idx, ok) == [stmt |-> name, idx |-> idx, ok |-> ok]

\* the Error a failed statement rejects with
queryError(name) == <<name, "failed">>

\* the column values of the INSERT for one record
insertRow(txn) ==
    [txn_id |-> txn.transaction_id, sender_vpa |-> txn.sender_upi,
     receiver_vpa |-> "unknown@upi", amount |-> txn.amount,
     anomaly_score |-> txn.risk_score, is_fraud |-> (txn.verdict = "FRAUD")]

\* INSERT ... ON CONFLICT (txn_id) DO UPDATE SET anomaly_score = ..., is_fraud = ...
\* on rows, a function from identifiers to rows
upsert(rows, txn) ==
    LET new == insertRow(txn)
        id == new.txn_id
    IN  IF id \in DOMAIN rows
        THEN [rows EXCEPT ![id] = [@ EXCEPT !.anomaly_score = new.anomaly_score,
                                            !.is_fraud = new.is_fraud]]
        ELSE rows @@ (id :> new)

\* the rows after the upsert of every record of the sequence, in order
RECURSIVE upsertAll(_, _)
upsertAll(rows, txns) ==
    IF txns = <<>> THEN rows ELSE upsertAll(upsert(rows, Head(txns)), Tail(txns))

\* the catch block up to its await: client.query("ROLLBACK") sent
Catch(e) ==
    /\ caught' = e
    /\ bpc' = "rollback"

\* client.release() of the finally block
Release ==
    /\ client' = "released"
    /\ releases' = releases + 1

\* bulkCreate(txns) up to its first await
EnterBulkCreate(txns) ==
    /\ bpc = "idle"
    /\ records' = txns
    /\ bpc' = "connect"
    /\ UNCHANGED <<taken, sent, pending, table, client, releases, caught, bulkOutcome>>

\* pool.connect() settles; resolved: client.query("BEGIN") sent.  Rejected: bulkCreate
\* throws before its try statement.
Connect ==
    /\ bpc = "connect"
    /\ \/ /\ client' = "held"
          /\ bpc' = "begin"
          /\ UNCHANGED bulkOutcome
       \/ /\ bulkOutcome' = Thrown(queryError("connect"))
          /\ bpc' = "threw"
          /\ UNCHANGED client
    /\ UNCHANGED <<records, taken, sent, pending, table, releases, caught>>
    /\ UNCHANGED <<batchVars, callVars, fileVars, pollVars>>

\* BEGIN settles; resolved: the first upsert is sent, or COMMIT if there is no record
BeginSettles ==
    /\ bpc = "begin"
    /\ \/ /\ sent' = Append(sent, Stmt("BEGIN", 0, TRUE))
          /\ pending' = table
          /\ IF Len(records) = 0
             THEN bpc' = "commit" /\ UNCHANGED taken
             ELSE bpc' = "upsert" /\ taken' = 1
          /\ UNCHANGED caught
       \/ /\ sent' = Append(sent, Stmt("BEGIN", 0, FALSE))
          /\ Catch(queryError("BEGIN"))
          /\ UNCHANGED <<pending, taken>>
    /\ UNCHANGED <<records, table, client, releases, bulkOutcome>>
    /\ UNCHANGED <<batchVars, callVars, fileVars, pollVars>>

\* the upsert of record number taken settles; resolved: the next upsert is sent, or
\* COMMIT after the last
UpsertSettles ==
    /\ bpc = "upsert"
    /\ \/ /\ sent' = Append(sent, Stmt("UPSERT", taken, TRUE))
          /\ pending' = upsert(pending, records[taken])
          /\ IF taken < Len(records)
             THEN bpc' = "upsert" /\ taken' = taken + 1
             ELSE bpc' = "commit" /\ UNCHANGED taken
          /\ UNCHANGED caught
       \/ /\ sent' = Append(sent, Stmt("UPSERT", taken, FALSE))
          /\ Catch(queryError("UPSERT"))
          /\ UNCHANGED <<pending, taken>>
    /\ UNCHANGED <<records, table, client, releases, bulkOutcome>>
    /\ UNCHANGED <<batchVars, callVars, fileVars, pollVars>>

\* COMMIT settles; resolved: the finally block, and bulkCreate returns.  Rejected:
\* the database committed and the reply was lost, or it did not commit.
CommitSettles ==
    /\ bpc = "commit"
    /\ \/ /\ sent' = Append(sent, Stmt("COMMIT", 0, TRUE))
          /\ table' = pending
          /\ Release
          /\ bulkOutcome' = Returned(0)
          /\ bpc' = "done"
          /\ UNCHANGED caught
       \/ /\ sent' = Append(sent, Stmt("COMMIT", 0, FALSE))
          /\ table' \in {table, pending}
          /\ Catch(queryError("COMMIT"))
          /\ UNCHANGED <<client, releases, bulkOutcome>>
    /\ UNCHANGED <<records, taken, pending>>
    /\ UNCHANGED <<batchVars, callVars, fileVars, pollVars>>

\* mutant of RollbackSettles: the connection is released after the rollback, in the
\* catch block
RollbackSettles_ReleaseInCatch ==
    /\ bpc = "rollback"
    /\ \/ /\ sent' = Append(sent, Stmt("ROLLBACK", 0, TRUE))
          /\ bulkOutcome' = Thrown(caught)
          /\ Release
       \/ /\ sent' = Append(sent, Stmt("ROLLBACK", 0, FALSE))
          /\ bulkOutcome' = Thrown(queryError("ROLLBACK"))
          /\ UNCHANGED <<client, releases>>
    /\ bpc' = "threw"
    /\ UNCHANGED <<records, taken, pending, table, caught>>
    /\ UNCHANGED <<batchVars, callVars, fileVars, pollVars>>

\* ROLLBACK settles; resolved: throw e.  Rejected: the await of the catch block
\* throws, and throw e is not reached.  Either way the finally block runs first.
RollbackSettles ==
    /\ bpc = "rollback"
    /\ \/ /\ sent' = Append(sent, Stmt("ROLLBACK", 0, TRUE))
          /\ bulkOutcome' = Thrown(caught)
       \/ /\ sent' = Append(sent, Stmt("ROLLBACK", 0, FALSE))
          /\ bulkOutcome' = Thrown(queryError("ROLLBACK"))
    /\ Release
    /\ bpc' = "threw"
    /\ UNCHANGED <<records, taken, pending, table, caught>>
    /\ UNCHANGED <<batchVars, callVars, fileVars, pollVars>>

\* scored transactions as processTransactions emits them
ScoredRecords ==
    { hybridResult(RowRefund, 0, checkHardcodedRules(RowRefund), Scale \div 2, 0),
      degradedResult(RowRefund, 0, checkHardcodedRules(RowRefund), 0),
      hybridResult(RowCollect, 1, checkHardcodedRules(RowCollect), 0, 0),
      hybridResult(RowPlain, 1, checkHardcodedRules(RowPlain), Scale \div 2, 0) }

\* the table before the call: empty, or holding a row for T1 from an earlier upload
StoredTables ==
    { <<>>,
      upsert(<<>>, hybridResult(RowRefund, 0, 0, 0, 0)) }

\* the sequence handed to bulkCreate, and the table it meets
BulkArgs ==
    {[txns |-> t, table |-> stored] :
        t \in UNION {[1..n -> ScoredRecords] : n \in 0..MaxBatch},
        stored \in StoredTables}

InitBulk ==
    /\ arg \in BulkArgs
    /\ called = "none"
    /\ ret = <<>>
    /\ transactions = <<>>
    /\ mock = {}
    /\ results = <<>>
    /\ i = 0
    /\ pc = "call"
    /\ attempt = 0
    /\ netlog = <<>>
    /\ waits = <<>>
    /\ mlOutcome = NoOutcome
    /\ now = 0
    /\ run = 1
    /\ first = <<>>
    /\ inFlight = 0
    /\ records = <<>>
    /\ bpc = "idle"
    /\ taken = 0
    /\ sent = <<>>
    /\ pending = <<>>
    /\ table = arg.table
    /\ client = "none"
    /\ releases = 0
    /\ caught = <<>>
    /\ bulkOutcome = NoOutcome
    /\ IdleFile
    /\ IdlePoll

\* TransactionModel.bulkCreate(arg) is called
CallBulkCreate ==
    /\ pc = "call"
    /\ called = "none"
    /\ called' = "bulkCreate"
    /\ EnterBulkCreate(arg.txns)
    /\ UNCHANGED <<arg, ret>>
    /\ UNCHANGED <<batchVars, fileVars, pollVars>>

NextBulk ==
    \/ CallBulkCreate
    \/ Connect
    \/ BeginSettles
    \/ UpsertSettles
    \/ CommitSettles
    \/ RollbackSettles

SpecBulk == InitBulk /\ [][NextBulk]_vars

-----------------------------------------------------------------------------
(* processTransactionFile: the "end" handler of the CSV stream, from the      *)
(* return of processTransactions on.  pc: "saving" while bulkCreate runs,     *)
(* "settled" once the promise has been resolved or rejected.                  *)

Pending == [state |-> "pending", value |-> <<>>]
ResolvedWith(v) == [state |-> "resolved", value |-> v]
RejectedWith(e) == [state |-> "rejected", value |-> e]

\* the TypeError that leaves processTransactions
RuleTypeError == <<"TypeError">>

\* processTransactions has returned: if (results.length > 0) bulkCreate(results) up to
\* its first await, else resolve(results)
SaveResults ==
    /\ pc = "returned"
    /\ promise = Pending
    /\ IF Len(results) > 0
       THEN /\ EnterBulkCreate(results)
            /\ bulkCalls' = Append(bulkCalls, results)
            /\ pc' = "saving"
            /\ UNCHANGED promise
       ELSE /\ promise' = ResolvedWith(results)
            /\ pc' = "settled"
            /\ UNCHANGED <<bulkCalls, bulkVars>>
    /\ UNCHANGED <<transactions, results, i, attempt, netlog, waits, mlOutcome, now,
                   mock, run, first, inFlight, callVars, pollVars>>

\* mutant of SaveSettles: a failure of the persistence is logged and the promise
\* resolves with the results
SaveSettles_Swallow ==
    /\ pc = "saving"
    /\ bpc \in {"done", "threw"}
    /\ promise' = ResolvedWith(results)
    /\ pc' = "settled"
    /\ UNCHANGED <<transactions, results, i, attempt, netlog, waits, mlOutcome, now,
                   mock, run, first, inFlight, bulkCalls, callVars, bulkVars, pollVars>>

\* bulkCreate has ended: resolve(results) if it returned, the catch block and
\* reject(error) if it threw
SaveSettles ==
    /\ pc = "saving"
    /\ bpc \in {"done", "threw"}
    /\ promise' = IF bpc = "done" THEN ResolvedWith(results)
                  ELSE RejectedWith(bulkOutcome.message)
    /\ pc' = "settled"
    /\ UNCHANGED <<transactions, results, i, attempt, netlog, waits, mlOutcome, now,
                   mock, run, first, inFlight, bulkCalls, callVars, bulkVars, pollVars>>

\* processTransactions has thrown: the catch block, reject(error)
ProcessingThrows ==
    /\ pc = "rejected"
    /\ promise = Pending
    /\ promise' = RejectedWith(RuleTypeError)
    /\ pc' = "settled"
    /\ UNCHANGED <<transactions, results, i, attempt, netlog, waits, mlOutcome, now,
                   mock, run, first, inFlight, bulkCalls, callVars, bulkVars, pollVars>>

\* a scorer that answers every call, and one that answers none
FileScorers == {{Resolved(Scale \div 2)}, {Rejected("timeout of 5000ms exceeded")}}

InitFile == InitWith(Rows \cup FaultRows, FileScorers)

NextFile ==
    \/ Next
    \/ SaveResults
    \/ SaveSettles
    \/ ProcessingThrows
    \/ Connect
    \/ BeginSettles
    \/ UpsertSettles
    \/ CommitSettles
    \/ RollbackSettles

SpecFile == InitFile /\ [][NextFile]_vars

-----------------------------------------------------------------------------
(* The dashboard: startTransactionPolling, fetchLatestTransactions and        *)
(* handleApiError.  Time is in milliseconds; a timer fires when it is due     *)
(* and no other timer is due before it.  pc: "page" before DOMContentLoaded,  *)
(* "polling" after startTransactionPolling.                                   *)

\* Math.min(1000 * Math.pow(2, retryCount), 30000)
pollBackoff(n) == Min(POLL_BACKOFF_BASE_MS * Pow(2, n), POLL_BACKOFF_CAP_MS)

\* how a call of fetchLatestTransactions may go: transactions are displayed, there
\* is nothing to display, or an exception reaches the catch block
FetchOutcomes == {"data", "empty", "throw"}

\* no timer is due before time t
Earliest(t) ==
    /\ intervalDue # <<>> => t <= intervalDue[1]
    /\ \A j \in DOMAIN timeouts : t <= timeouts[j]

\* seq without its element number j
Without(seq, j) == SubSeq(seq, 1, j - 1) \o SubSeq(seq, j + 1, Len(seq))

\* handleApiError at time t, rest being the backoff timeouts still pending
handleApiError(t, rest) ==
    /\ retryCount' = retryCount + 1
    /\ IF retryCount + 1 >= MAX_RETRIES
       THEN /\ stopped' = TRUE
            /\ timeouts' = rest
       ELSE /\ timeouts' = Append(rest, t + pollBackoff(retryCount + 1))
            /\ UNCHANGED stopped

\* fetchLatestTransactions, invoked by the page load, the interval or a timeout
fetchLatestTransactions(by, t, rest) ==
    /\ lastFetch' = [by |-> by, stopped |-> stopped]
    /\ \E outcome \in FetchOutcomes :
          IF outcome = "throw" THEN handleApiError(t, rest)
          ELSE /\ retryCount' = IF outcome = "data" THEN 0 ELSE retryCount
               /\ timeouts' = rest
               /\ UNCHANGED stopped

\* DOMContentLoaded: startTransactionPolling fetches at once and sets the interval
StartPolling ==
    /\ pc = "page"
    /\ pc' = "polling"
    /\ fetchLatestTransactions("start", clock, timeouts)
    /\ pollingInterval' = 1
    /\ intervalDue' = <<clock + POLL_INTERVAL>>
    /\ UNCHANGED <<clock, ticks>>
    /\ UNCHANGED <<transactions, results, i, attempt, netlog, waits, mlOutcome, now,
                   mock, run, first, inFlight, callVars, bulkVars, fileVars>>

\* the interval timer ticks; clearInterval in handleApiError ends it
IntervalTicks ==
    /\ pc = "polling"
    /\ ticks < MaxTicks
    /\ intervalDue # <<>>
    /\ Earliest(intervalDue[1])
    /\ clock' = intervalDue[1]
    /\ ticks' = ticks + 1
    /\ fetchLatestTransactions("interval", intervalDue[1], timeouts)
    /\ intervalDue' = IF stopped' THEN <<>> ELSE <<intervalDue[1] + POLL_INTERVAL>>
    /\ UNCHANGED pollingInterval
    /\ UNCHANGED <<batchVars, callVars, bulkVars, fileVars>>

\* a backoff timeout set by handleApiError fires
BackoffFires ==
    /\ pc = "polling"
    /\ ticks < MaxTicks
    /\ \E j \in DOMAIN timeouts :
          /\ Earliest(timeouts[j])
          /\ clock' = timeouts[j]
          /\ fetchLatestTransactions("timeout", timeouts[j], Without(timeouts, j))
    /\ ticks' = ticks + 1
    /\ intervalDue' = IF stopped' THEN <<>> ELSE intervalDue
    /\ UNCHANGED pollingInterval
    /\ UNCHANGED <<batchVars, callVars, bulkVars, fileVars>>

InitPoll ==
    /\ arg = <<>>
    /\ called = "none"
    /\ ret = <<>>
    /\ transactions = <<>>
    /\ mock = {}
    /\ results = <<>>
    /\ i = 0
    /\ pc = "page"
    /\ attempt = 0
    /\ netlog = <<>>
    /\ waits = <<>>
    /\ mlOutcome = NoOutcome
    /\ now = 0
    /\ run = 1
    /\ first = <<>>
    /\ inFlight = 0
    /\ IdleBulk
    /\ IdleFile
    /\ IdlePoll

NextPoll == StartPolling \/ IntervalTicks \/ BackoffFires

SpecPoll == InitPoll /\ [][NextPoll]_vars

-----------------------------------------------------------------------------
(* Properties *)

Last(seq) == seq[Len(seq)]

\* processTransactions is between two iterations or has returned
Settled == pc \in {"loop", "returned"}

\* C1, as stated: in every emitted result, rule_score >= 0.9 gives risk_score exactly
\* 1.0 and verdict FRAUD, also when ml_score is absent.
C1_OverrideAlways ==
    \A k \in DOMAIN results :
        results[k].rule_score >= OverrideThreshold
            => results[k].risk_score = Scale /\ results[k].verdict = "FRAUD"

\* C1, amended: in every emitted result, rule_score >= 0.9 gives verdict FRAUD; the
\* risk_score is exactly 1.0 when ml_score is present, and is rule_score when ml_score
\* is absent.
C1_OverrideWhenScored ==
    \A k \in DOMAIN results :
        results[k].rule_score >= OverrideThreshold
            => /\ results[k].verdict = "FRAUD"
               /\ results[k].ml_score # None => results[k].risk_score = Scale
               /\ results[k].ml_score = None
                    => results[k].risk_score = results[k].rule_score

C1_Witness ==
    /\ Len(results) = 2
    /\ results[1].rule_score = (Scale * 95) \div 100
    /\ results[1].ml_score = Some(0 - (Scale \div 2))
    /\ results[1].risk_score = Scale
    /\ results[2].rule_score = (Scale * 95) \div 100
    /\ results[2].ml_score = None
    /\ results[2].risk_score = (Scale * 95) \div 100

\* C2: when all 3 attempts of the remote scorer failed for a transaction, its result
\* has ml_score absent and a risk_score equal to rule_score, the rule score of that
\* transaction.
C2_FailureFallsBackToRuleScore ==
    (/\ Settled
     /\ Len(netlog) = RETRIES
     /\ \A k \in DOMAIN netlog : attemptThrows(netlog[k]))
        => /\ Len(results) = i
           /\ Last(results).ml_score = None
           /\ Last(results).risk_score = Last(results).rule_score
           /\ Last(results).rule_score = checkHardcodedRules(transactions[i])

C2_Witness ==
    /\ Settled
    /\ Len(netlog) = RETRIES
    /\ \A k \in DOMAIN netlog : attemptThrows(netlog[k])
    /\ Last(results).ml_score = None
    /\ Last(results).risk_score = (Scale * 95) \div 100

\* C3, as stated: in every emitted result the verdict is FRAUD exactly when the
\* emitted, rounded risk_score is above 0.7.
C3_VerdictFromEmittedScore ==
    \A k \in DOMAIN results :
        results[k].verdict = "FRAUD" <=> results[k].risk_score > VerdictThreshold

\* a transaction on which scoring raises an error that is not the scorer's failure
UnexpectedError(txn) == checkHardcodedRulesThrows(txn) \/ prepareMlPayloadThrows(txn)

\* result r is a result for the transaction at 0-based position idx
ResultFor(r, txn, idx) ==
    /\ r.amount = parseNumberOr0(txn, "amount")
    /\ IF hasTxnId(txn)
       THEN r.transaction_id[1] = txn.txn_id
       ELSE r.transaction_id[1] = "TXN" /\ r.transaction_id[3] = idx

C5_OneResultPerTransaction ==
    /\ pc # "rejected"
    /\ Len(results) = i
    /\ i <= Len(transactions)
    /\ pc = "returned" => Len(results) = Len(transactions)
    /\ \A k \in DOMAIN results :
        /\ ResultFor(results[k], transactions[k], k - 1)
        /\ results[k].rule_score = checkHardcodedRules(transactions[k])

C5_Witness ==
    /\ pc = "returned"
    /\ Len(transactions) = 2
    /\ Len(results) = 2
    /\ results[1].ml_score = None
    /\ results[2].ml_score # None
    /\ transactions[1] # transactions[2]

\* a result without its identifier
WithoutId(r) == [f \in DOMAIN r \ {"transaction_id"} |-> r[f]]

\* C6, as stated: a second run on the same transactions with the same scorer response
\* gives the same records in every field, transaction_id included.
C6_RerunIdentical ==
    (run > 1 /\ pc = "returned") => results = first

\* C6, amended: a second run on the same transactions with the same scorer response
\* gives records equal in every field but transaction_id; the transaction_id is equal
\* too when the transaction has a non-empty identifier, and otherwise is generated from
\* the clock and the position, of which only the position is the same.
C6_RerunIdenticalButGeneratedId ==
    (run > 1 /\ pc = "returned")
        => /\ Len(results) = Len(first)
           /\ \A k \in DOMAIN results :
                /\ WithoutId(results[k]) = WithoutId(first[k])
                /\ IF hasTxnId(transactions[k])
                   THEN results[k].transaction_id = first[k].transaction_id
                   ELSE /\ results[k].transaction_id[1] = first[k].transaction_id[1]
                        /\ results[k].transaction_id[3] = first[k].transaction_id[3]

C6_Witness ==
    /\ run > 1
    /\ pc = "returned"
    /\ Len(results) = 2
    /\ hasTxnId(transactions[1])
    /\ results[1] = first[1]
    /\ ~hasTxnId(transactions[2])
    /\ results[2].transaction_id # first[2].transaction_id
    /\ WithoutId(results[2]) = WithoutId(first[2])

\* C7: one callMlApi makes at most 3 network calls; every call before its last one
\* failed; it ends by returning the probability of the first call that succeeded, or,
\* all 3 calls having failed, by throwing an error that carries the message of the
\* last failure; between two iterations it has ended in one of these two ways, and
\* until then each attempt is a post in flight or a timer that leads to a further
\* attempt within the budget: the loop is never left by its condition.
C7_AtMostThreeCalls ==
    /\ Len(netlog) <= RETRIES
    /\ pc = "post" => Len(netlog) + 1 <= RETRIES
    /\ \A k \in 1..(Len(netlog) - 1) : attemptThrows(netlog[k])
    /\ pc \in {"post", "sleep"} => mlOutcome.kind = "none"
    /\ pc = "post" => attempt = Len(netlog) + 1
    /\ pc = "sleep" => attempt = Len(netlog) /\ attempt + 1 <= RETRIES
    /\ (Settled /\ netlog # <<>>) => mlOutcome.kind \in {"value", "error"}
    /\ mlOutcome.kind = "value"
        => /\ ~attemptThrows(Last(netlog))
           /\ mlOutcome.value = fraudProbability(Last(netlog))
    /\ mlOutcome.kind = "error"
        => /\ Len(netlog) = RETRIES
           /\ attemptThrows(Last(netlog))
           /\ mlOutcome.message[2] = RETRIES
           /\ mlOutcome.message[4] = errorMessage(Last(netlog))

C7_Witness ==
    /\ mlOutcome.kind = "error"
    /\ Len(netlog) = RETRIES
    /\ netlog[1] = ResolvedNullBody
    /\ netlog[3] = Rejected("timeout of 5000ms exceeded")
    /\ mlOutcome.message[4] = "timeout of 5000ms exceeded"

\* the attempts of the current callMlApi that failed and were not the last allowed
FailedBeforeLast == {k \in DOMAIN netlog : attemptThrows(netlog[k]) /\ k < RETRIES}

\* C8: the waits of one callMlApi are 1000 ms after failed attempt 1 and 2000 ms after
\* failed attempt 2, one wait per failed attempt that is not the last; there is no
\* wait after a successful attempt nor after the failed third attempt.
C8_BackoffDelays ==
    /\ Len(waits) <= 2
    /\ waits = SubSeq(<<1000, 2000>>, 1, Len(waits))
    /\ Len(waits) = Cardinality(FailedBeforeLast)
    /\ pc = "sleep" <=> (netlog # <<>> /\ Len(netlog) < RETRIES
                            /\ attemptThrows(Last(netlog)) /\ Len(waits) = attempt)

C8_Witness ==
    /\ Settled
    /\ mlOutcome.kind = "error"
    /\ Len(netlog) = RETRIES
    /\ waits = <<1000, 2000>>

\* C9: a response that resolved without the probability field ends callMlApi at once
\* with the value 0, and the transaction's result is the one of the success path:
\* ml_score 0, the risk_score of the blend with 0, and not the fallback reason.
C9_MissingFieldIsZero ==
    (netlog # <<>> /\ Last(netlog) = ResolvedNoField)
        => /\ Settled
           /\ mlOutcome = Returned(0)
           /\ Len(results) = i
           /\ Last(results).ml_score = Some(0)
           /\ Last(results).reason \in {"Clean", "High Risk Detected by Hybrid Engine"}
           /\ Last(results).risk_score
                = IF Last(results).rule_score >= OverrideThreshold THEN Scale
                  ELSE toFixed((Last(results).rule_score * 4) \div 10)

C9_Witness ==
    /\ Len(netlog) = 2
    /\ Last(netlog) = ResolvedNoField
    /\ Settled
    /\ Last(results).ml_score = Some(0)
    /\ Last(results).rule_score = 0
    /\ Last(results).reason = "Clean"

\* C10, as stated: in every emitted result rule_score, ml_score when present and
\* risk_score lie in [0,1], whatever probability the scorer's response carries.
C10_ScoresInUnitInterval ==
    \A k \in DOMAIN results :
        /\ results[k].rule_score \in 0..Scale
        /\ results[k].risk_score \in 0..Scale
        /\ results[k].ml_score # None => results[k].ml_score[1] \in 0..Scale

-----------------------------------------------------------------------------
(* Properties of the functions called on their own *)

Returned_(name) == called = name /\ ~ret.threw

\* the amount of the argument is the numeral of a number in lo..hi
AmountIn(lo, hi) ==
    /\ Has(arg.txn, "amount")
    /\ IsNumStr(arg.txn.amount)
    /\ arg.txn.amount.numstr \in lo..hi

FieldIs(key, v) == Has(arg.txn, key) /\ arg.txn[key] = v

\* the description as written, <<>> when there is none
RawDescription ==
    IF Has(arg.txn, "description") /\ IsStr(arg.txn.description)
    THEN arg.txn.description.str ELSE <<>>

\* character c is the lower-case letter l or its upper-case form
SameLetter(c, l) ==
    c = l \/ \E k \in DOMAIN LowerCase : LowerCase[k] = l /\ UpperCase[k] = c

\* text contains word, a tuple of lower-case characters, in some letter case
ContainsAnyCase(text, word) ==
    \E start \in 0..(Len(text) - Len(word)) :
        \A j \in 1..Len(word) : SameLetter(text[start + j], word[j])

\* the rules as the aggregator calls them: no history, no prior incoming transaction
RiskSum ==
    checkGrooming(arg.txn, <<>>).risk + checkGhostCredit(arg.txn, <<>>).risk
        + checkRefundScam(arg.txn).risk

\* C11: checkHardcodedRules returns min(S / 100, 1.0), S the sum of the risks of the
\* rules it evaluates (0 for a rule that did not trigger), and so a value in [0,1],
\* also when S is above 100.
C11_AggregatorClamps ==
    Returned_("checkHardcodedRules")
        => /\ ret.value = Min((RiskSum * Scale) \div 100, Scale)
           /\ ret.value \in 0..Scale

C11_Witness ==
    /\ Returned_("checkHardcodedRules")
    /\ RiskSum = 195
    /\ ret.value = Scale

\* C12, as stated: for an amount of at most 1000, 1000 included, and every history,
\* checkGrooming does not trigger and returns risk 0.
C12_NoGroomingUpTo1000 ==
    (Returned_("checkGrooming") /\ AmountIn(0, 1000))
        => ~ret.value.triggered /\ ret.value.risk = 0

\* the prior transactions of the argument with an amount of at most 50
MicroCount == Cardinality({k \in DOMAIN arg.history : arg.history[k].amount <= 50})

C14_NoGhostCreditForMerchant ==
    (Returned_("checkGhostCredit") /\ FieldIs("beneficiary_type", "MERCHANT"))
        => ~ret.value.triggered /\ ret.value.risk = 0

C14_Witness ==
    /\ Returned_("checkGhostCredit")
    /\ FieldIs("beneficiary_type", "MERCHANT")
    /\ arg.lastIncoming = <<>>
    /\ ContainsAnyCase(RawDescription, <<"r", "e", "f", "u", "n", "d">>)
    /\ ~ret.value.triggered

\* C15: for an INDIVIDUAL beneficiary with no prior incoming transaction and a
\* description that contains "refund" in any letter case, checkGhostCredit triggers
\* with risk 95.
C15_GhostCreditOnRefund ==
    (/\ Returned_("checkGhostCredit")
     /\ FieldIs("beneficiary_type", "INDIVIDUAL")
     /\ arg.lastIncoming = <<>>
     /\ ContainsAnyCase(RawDescription, <<"r", "e", "f", "u", "n", "d">>))
        => ret.value.triggered /\ ret.value.risk = 95

C15_Witness ==
    /\ Returned_("checkGhostCredit")
    /\ FieldIs("beneficiary_type", "INDIVIDUAL")
    /\ arg.lastIncoming = <<>>
    /\ RawDescription = <<"m", "y", " ", "R", "e", "f", "u", "n", "d", " ", "p", "l", "s">>
    /\ ret.value.triggered
    /\ ret.value.risk = 95

\* the description contains one of the words, in some letter case
DescriptionHasOneOf(words) == \E w \in words : ContainsAnyCase(RawDescription, w)

FourKeywords ==
    { <<"p", "r", "i", "z", "e">>, <<"l", "o", "t", "t", "e", "r", "y">>,
      <<"r", "e", "f", "u", "n", "d">>, <<"c", "a", "s", "h", "b", "a", "c", "k">> }

SixKeywords == FourKeywords \cup { <<"w", "o", "n">>, <<"c", "l", "a", "i", "m">> }

\* C16, as stated: checkRefundScam triggers, with risk 100, exactly when the type is
\* COLLECT and the description contains prize, lottery, refund or cashback.
C16_RefundScamFourKeywords ==
    Returned_("checkRefundScam")
        => /\ ret.value.triggered
                <=> (FieldIs("type", "COLLECT") /\ DescriptionHasOneOf(FourKeywords))
           /\ ret.value.risk = IF ret.value.triggered THEN 100 ELSE 0

\* C16, amended: checkRefundScam triggers, with risk 100, exactly when the type is
\* COLLECT and the description contains, in any letter case, one of refund, cashback,
\* prize, won, lottery or claim; it never triggers for another type.
C16_RefundScamSixKeywords ==
    Returned_("checkRefundScam")
        => /\ ret.value.triggered
                <=> (FieldIs("type", "COLLECT") /\ DescriptionHasOneOf(SixKeywords))
           /\ ret.value.risk = IF ret.value.triggered THEN 100 ELSE 0

C16_Witness ==
    /\ Returned_("checkRefundScam")
    /\ FieldIs("type", "COLLECT")
    /\ RawDescription = <<"I", " ", "W", "O", "N">>
    /\ ret.value.triggered
    /\ ret.value.risk = 100

-----------------------------------------------------------------------------
(* Further properties of the batch processor *)

\* score, in millionths, is value rounded to 3 decimal places
RoundedTo3(score, value) ==
    /\ score % 1000 = 0
    /\ 2 * (score - value) \in (0 - 1000)..1000

\* C17: in every result with an ml_score and a rule_score below 0.9, the risk_score is
\* rule_score * 0.4 + ml_score * 0.6 rounded to 3 decimal places.
C17_BlendRounded ==
    \A k \in DOMAIN results :
        (results[k].ml_score # None /\ 10 * results[k].rule_score < 9 * Scale)
            => RoundedTo3(results[k].risk_score,
                          (4 * results[k].rule_score + 6 * results[k].ml_score[1]) \div 10)

C17_Witness ==
    \E k \in DOMAIN results :
        /\ results[k].rule_score = 0
        /\ results[k].ml_score = Some(1167000)
        /\ results[k].risk_score = 700000

\* C19: in every result the reason is the rule-only string exactly when ml_score is
\* absent; with an ml_score it is the high-risk string when the verdict is FRAUD and
\* the clean string when the verdict is SAFE.
C19_ReasonTellsEvidence ==
    \A k \in DOMAIN results :
        /\ results[k].reason = "ML unavailable - Rule-based scoring only"
                <=> results[k].ml_score = None
        /\ results[k].ml_score # None
            => results[k].reason
                 = IF results[k].verdict = "FRAUD"
                   THEN "High Risk Detected by Hybrid Engine" ELSE "Clean"
        /\ results[k].verdict \in {"FRAUD", "SAFE"}

C19_Witness ==
    /\ Len(results) = 2
    /\ results[1].ml_score = None
    /\ results[1].verdict = "FRAUD"
    /\ results[1].reason = "ML unavailable - Rule-based scoring only"
    /\ results[2].ml_score # None
    /\ results[2].verdict = "SAFE"
    /\ results[2].reason = "Clean"

\* C20: a result depends on its own transaction and on the scorer's responses to its
\* own calls only: it carries the rule score of its transaction and the outcome of
\* the last of its calls, two equal transactions with equal ml_score get results
\* equal but for the identifier, whatever came before them; and every transaction
\* starts at attempt 1, so that a fallback by scorer failure comes after 3 calls made
\* for that transaction.
C20_IndependentScoring ==
    /\ \A k \in DOMAIN results :
        results[k].rule_score = checkHardcodedRules(transactions[k])
    /\ \A j, k \in DOMAIN results :
        (transactions[j] = transactions[k] /\ results[j].ml_score = results[k].ml_score)
            => WithoutId(results[j]) = WithoutId(results[k])
    /\ (pc = "post" /\ netlog = <<>>) => attempt = 1
    /\ (Settled /\ netlog # <<>>)
        => /\ Last(results).ml_score
                = IF attemptThrows(Last(netlog)) THEN None
                  ELSE Some(fraudProbability(Last(netlog)))
           /\ attemptThrows(Last(netlog)) => Len(netlog) = RETRIES

C20_Witness ==
    /\ Settled
    /\ Len(results) = 2
    /\ transactions[1] = transactions[2]
    /\ results[1].ml_score = None
    /\ Len(netlog) = RETRIES
    /\ results[2].ml_score = Some(Scale \div 2)

\* a signal cell that parseBool cannot read as a boolean, or that is missing
NoBoolean(key) ==
    \/ ~Has(arg.txn, key)
    \/ arg.txn[key] \in {S(<<"m", "a", "y", "b", "e">>), NumStr(7)}

\* a signal cell that parseFloat and parseInt cannot read as a number, or that is
\* missing
NoNumber(key) == ~Has(arg.txn, key) \/ IsStr(arg.txn[key])

\* C18: prepareMlPayload never throws on a row whose signal cells are missing or
\* cannot be parsed; it returns a payload with all 15 fields, in which such a boolean
\* field is false, requires_pin being true instead, and such a numeric field is 0.
C18_PayloadDefaults ==
    called = "prepareMlPayload"
        => /\ ~ret.threw
           /\ DOMAIN ret.value
                = BoolFields \cup NumberFields \cup {"channel", "page_context"}
           /\ Cardinality(DOMAIN ret.value) = 15
           /\ \A key \in BoolFields :
                NoBoolean(key) => ret.value[key] = (key = "requires_pin")
           /\ \A key \in NumberFields : NoNumber(key) => ret.value[key] = 0
           /\ ret.value.channel = "intent"
           /\ ret.value.page_context = "normal_payment"

C18_Witness ==
    /\ called = "prepareMlPayload"
    /\ Has(arg.txn, "requires_pin")
    /\ NoBoolean("requires_pin")
    /\ Has(arg.txn, "anomaly_score")
    /\ NoNumber("anomaly_score")
    /\ ret.value.requires_pin = TRUE
    /\ ret.value.device_change = FALSE
    /\ ret.value.anomaly_score = 0

-----------------------------------------------------------------------------
(* Properties of bulkCreate *)

\* the statements of the try block that have failed, by their place in sent
FailedInTry == {j \in DOMAIN sent : ~sent[j].ok /\ sent[j].stmt # "ROLLBACK"}

\* COMMIT has been sent
CommitSent == bpc = "commit" \/ \E j \in DOMAIN sent : sent[j].stmt = "COMMIT"

\* BEGIN and the upsert of every record have succeeded, in order
AllUpserted ==
    /\ Len(sent) >= Len(records) + 1
    /\ sent[1] = Stmt("BEGIN", 0, TRUE)
    /\ \A j \in 1..Len(records) : sent[j + 1] = Stmt("UPSERT", j, TRUE)

\* the table as bulkCreate met it
TableBefore == IF pc = "call" THEN arg.table ELSE <<>>

\* C21, as stated: COMMIT is sent only after the upsert of every record has succeeded;
\* when BEGIN, an upsert or COMMIT fails, no further upsert is sent, ROLLBACK is sent
\* next, and bulkCreate throws the error of the failed statement; the table holds
\* what it held before or the whole batch, never a part of it.
C21_AllOrNothing ==
    /\ CommitSent => AllUpserted
    /\ \A j \in FailedInTry :
          /\ bpc # "upsert"
          /\ \A l \in DOMAIN sent : l > j => sent[l].stmt = "ROLLBACK"
          /\ IF j = Len(sent) THEN bpc = "rollback" ELSE Len(sent) = j + 1
          /\ bpc = "threw" => bulkOutcome = Thrown(queryError(sent[j].stmt))
    /\ table \in {TableBefore, upsertAll(TableBefore, records)}

-----------------------------------------------------------------------------

\* C29: a call of bulkCreate that has acquired a connection releases it exactly once,
\* at its end and not before: after the commit, after a failed statement and its
\* rollback, after a failed COMMIT, and after a ROLLBACK that failed itself.  A call
\* whose pool.connect() failed holds no connection and releases none.
C29_ReleasedExactlyOnce ==
    /\ releases <= 1
    /\ bpc \in {"begin", "upsert", "commit", "rollback"} => client = "held" /\ releases = 0
    /\ bpc \in {"done", "threw"} =>
          IF sent = <<>> THEN client = "none" /\ releases = 0
          ELSE client = "released" /\ releases = 1

C29_Witness ==
    /\ bpc = "threw"
    /\ Len(sent) >= 3
    /\ sent[Len(sent)] = Stmt("ROLLBACK", 0, FALSE)
    /\ sent[Len(sent) - 1] = Stmt("UPSERT", 1, FALSE)
    /\ bulkOutcome = Thrown(queryError("ROLLBACK"))
    /\ releases = 1

-----------------------------------------------------------------------------
(* Properties of processTransactionFile *)

\* C22: processTransactionFile calls bulkCreate only once processTransactions has
\* scored every transaction, with the results as its argument, at most once, and not
\* at all when there is no result; when bulkCreate throws, it is not called again and
\* the promise is rejected with the error it threw; the promise is resolved, with the
\* results, only when bulkCreate returned or was not called.
C22_PersistOnceAfterScoring ==
    /\ Len(bulkCalls) <= 1
    /\ bpc # "idle" <=> bulkCalls # <<>>
    /\ bulkCalls # <<>> =>
          /\ pc \in {"saving", "settled"}
          /\ Len(results) = Len(transactions)
          /\ results # <<>>
          /\ bulkCalls[1] = results
          /\ records = results
    /\ pc = "saving" => promise = Pending
    /\ pc = "settled" /\ bpc = "threw" => promise = RejectedWith(bulkOutcome.message)
    /\ promise.state = "resolved" =>
          /\ promise.value = results
          /\ Len(results) = Len(transactions)
          /\ IF results = <<>> THEN bpc = "idle" ELSE bpc = "done"

C22_Witness ==
    /\ pc = "settled"
    /\ Len(results) = 2
    /\ bpc = "threw"
    /\ Len(sent) >= 2
    /\ sent[Len(sent) - 1] = Stmt("UPSERT", 2, FALSE)
    /\ Len(bulkCalls) = 1
    /\ promise = RejectedWith(queryError("UPSERT"))

-----------------------------------------------------------------------------
(* Further properties of the rules *)

FixedRisk(name) ==
    IF name = "checkGrooming" THEN 75
    ELSE IF name = "checkGhostCredit" THEN 95
    ELSE 100

RuleNames == {"checkGrooming", "checkGhostCredit", "checkRefundScam"}

\* C24: the outcome a rule returns has risk 0 and no reason when triggered is false,
\* and the risk of that rule (75 for grooming, 95 for ghost credit, 100 for refund
\* scam) and a reason when triggered is true.
C24_RuleOutcomeWellFormed ==
    called \in RuleNames /\ ~ret.threw =>
        IF ret.value.triggered
        THEN /\ DOMAIN ret.value = {"triggered", "risk", "reason"}
             /\ ret.value.risk = FixedRisk(called)
             /\ ret.value.reason # ""
        ELSE /\ DOMAIN ret.value = {"triggered", "risk"}
             /\ ret.value.risk = 0

C24_Witness ==
    /\ Returned_("checkRefundScam")
    /\ ret.value.triggered
    /\ ret.value.risk = 100
    /\ "reason" \in DOMAIN ret.value

-----------------------------------------------------------------------------

\* C27: with a prior incoming transaction from the beneficiary, checkGhostCredit does
\* not trigger, whatever the beneficiary type and the description.
C27_NoGhostCreditWithPriorIncoming ==
    Returned_("checkGhostCredit") /\ arg.lastIncoming # <<>> =>
        ret.value = [triggered |-> FALSE, risk |-> 0]

C27_Witness ==
    /\ Returned_("checkGhostCredit")
    /\ arg.lastIncoming # <<>>
    /\ FieldIs("beneficiary_type", "INDIVIDUAL")
    /\ ContainsAnyCase(RawDescription, <<"r", "e", "f", "u", "n", "d">>)
    /\ ~ret.value.triggered

-----------------------------------------------------------------------------
(* Further properties of the batch processor *)

\* the scorer failed, or gave a probability in [0,1]
ScorerInRange(r) == r.ml_score = None \/ r.ml_score[1] \in 0..Scale

\* C25: in the batch as wired, the rule_score of a result is 0, 0.95 or 1.0; when the
\* scorer failed or gave a probability in [0,1], the verdict is FRAUD exactly when
\* rule_score > 0, and so two results for the same transaction have the same verdict
\* whatever the scorer did for each.
C25_VerdictIgnoresScorer ==
    /\ \A a \in DOMAIN results :
          /\ results[a].rule_score \in {0, (95 * Scale) \div 100, Scale}
          /\ ScorerInRange(results[a]) =>
                (results[a].verdict = "FRAUD" <=> results[a].rule_score > 0)
    /\ \A a, b \in DOMAIN results :
          /\ transactions[a] = transactions[b]
          /\ ScorerInRange(results[a])
          /\ ScorerInRange(results[b])
          => results[a].verdict = results[b].verdict

C25_Witness ==
    /\ Len(results) = 2
    /\ transactions[1] = RowPlain
    /\ transactions[2] = RowPlain
    /\ results[1].ml_score = Some(Scale)
    /\ results[2].ml_score = None
    /\ results[1].verdict = "SAFE"
    /\ results[2].verdict = "SAFE"

-----------------------------------------------------------------------------

\* C26: at most one call of the scorer is in flight, and while a transaction is being
\* scored (a call in flight or a backoff pending) the results of all the transactions
\* before it, and no other, have been appended.
C26_Sequential ==
    /\ inFlight \in {0, 1}
    /\ inFlight = 1 <=> pc = "post"
    /\ pc \in {"post", "sleep"} => Len(results) = i /\ i < Len(transactions)
    /\ Len(results) <= i

C26_Witness ==
    /\ pc = "post"
    /\ inFlight = 1
    /\ attempt = 1
    /\ i = 1
    /\ Len(results) = 1
    /\ results[1].ml_score = None

-----------------------------------------------------------------------------
(* Properties of the dashboard *)

\* C28, as stated: once handleApiError has stopped the polling, neither the interval
\* nor a backoff timeout invokes fetchLatestTransactions, and retryCount is never
\* above MAX_RETRIES.
C28_NoFetchAfterStop ==
    /\ lastFetch.stopped => lastFetch.by \notin {"interval", "timeout"}
    /\ retryCount <= 5
====
